---- MODULE Spec2Model ----
(***************************************************************************)
(* MPL: Kripke models with one accessibility relation per agent, and the   *)
(* truth evaluator for multi-agent epistemic formulas.                     *)
(*                                                                         *)
(* World indices are the 0-based array indices of the JavaScript source;   *)
(* world i is stored at position i+1 of the sequence `states`.             *)
(* Truth values are the strings "true", "false" and "undefined"; a thrown  *)
(* Error is the string "StateNotFound" ('State n not found!'),             *)
(* "TypeError" or "InvalidFormula".                                        *)
(***************************************************************************)
EXTENDS Integers, Sequences, FiniteSets, TLC

VARIABLES
  states,    \* _states: the array of state objects and nulls
  lastTrue   \* history: per slot, the variables whose latest setting was true

vars == <<states, lastTrue>>

\* ---------------------------------------------------------------- bounds
MaxWorlds == 2
MaxTrans == 2

Props == {"p"}
Agents == {"a", "b"}
AgentLists == << <<"a">>, <<"b">>, <<"a", "b">> >>

WorldIds == 0..(MaxWorlds - 1)

\* ------------------------------------------------------------- utilities
Range(s) == {s[k] : k \in 1..Len(s)}

\* Storage held by one Map: one unit per key, or per list element when the
\* list has more than one.
RECURSIVE SumLen(_)
SumLen(entries) ==
  IF entries = <<>> THEN 0
  ELSE (IF Len(Head(entries).list) = 0 THEN 1 ELSE Len(Head(entries).list))
       + SumLen(Tail(entries))

\* ---------------------------------------------------------- the Map type
\* A JavaScript Map keeps its keys in insertion order: a sequence of
\* entries [agent, list].
EmptyMap == <<>>

MapHas(s, agent) == \E k \in 1..Len(s) : s[k].agent = agent

MapIndex(s, agent) == CHOOSE k \in 1..Len(s) : s[k].agent = agent

MapGet(s, agent) == s[MapIndex(s, agent)].list

MapSet(s, agent, L) ==
  IF MapHas(s, agent)
    THEN [s EXCEPT ![MapIndex(s, agent)] = [agent |-> agent, list |-> L]]
    ELSE Append(s, [agent |-> agent, list |-> L])

\* Map.prototype.values(): the lists, in key insertion order.
MapValues(s) == [k \in 1..Len(s) |-> s[k].list]

\* ------------------------------------------------------------- the model
NULL == [null |-> TRUE]

\* !_states[i] : i is out of range, or the slot holds null.
Exists(sts, i) == i \in 0..(Len(sts) - 1) /\ sts[i + 1] # NULL

\* Array.prototype.indexOf / splice(index, 1): drop the first occurrence.
RECURSIVE RemoveFirst(_, _)
RemoveFirst(L, target) ==
  IF L = <<>> THEN <<>>
  ELSE IF Head(L) = target THEN Tail(L)
  ELSE <<Head(L)>> \o RemoveFirst(Tail(L), target)

\* The body of addTransition's agentList.forEach, folded over the list.
RECURSIVE AddForEach(_, _, _)
AddForEach(s, target, agentList) ==
  IF agentList = <<>> THEN s
  ELSE LET agent == Head(agentList)
           s2 == IF MapHas(s, agent)
                   THEN MapSet(s, agent, Append(MapGet(s, agent), target))
                   ELSE MapSet(s, agent, <<target>>)
       IN AddForEach(s2, target, Tail(agentList))

\* A variant that tests the source only, as removeTransition does.
addTransition_SourceOnly(sts, source, target, agentList) ==
  IF ~Exists(sts, source) THEN sts
  ELSE [sts EXCEPT ![source + 1].successors =
          AddForEach(sts[source + 1].successors, target, agentList)]

addTransition(sts, source, target, agentList) ==
  IF ~Exists(sts, source) \/ ~Exists(sts, target) THEN sts
  ELSE [sts EXCEPT ![source + 1].successors =
          AddForEach(sts[source + 1].successors, target, agentList)]

\* The body of removeTransition's agentList.forEach, folded over the list.
RECURSIVE RemoveForEach(_, _, _)
RemoveForEach(s, target, agentList) ==
  IF agentList = <<>> THEN s
  ELSE LET agent == Head(agentList)
           s2 == IF MapHas(s, agent)
                   THEN MapSet(s, agent, RemoveFirst(MapGet(s, agent), target))
                   ELSE s
       IN RemoveForEach(s2, target, Tail(agentList))

removeTransition(sts, source, target, agentList) ==
  IF ~Exists(sts, source) THEN sts
  ELSE [sts EXCEPT ![source + 1].successors =
          RemoveForEach(sts[source + 1].successors, target, agentList)]

\* removeState calls _states.forEach(function (source, index, agent) ...):
\* forEach hands its callback (element, index, array), so the parameter
\* named `agent` is the _states array itself, and removeTransition iterates
\* over state objects and nulls.  Map.has() of such a value is false for a
\* Map keyed by agent identifiers: the list of values that can match a key
\* is empty.
StatesAsAgentList(sts) == SelectSeq(sts, LAMBDA e : FALSE)

RECURSIVE RemoveStateForEach(_, _, _)
RemoveStateForEach(sts, state, index) ==
  IF index >= Len(sts) THEN sts
  ELSE LET sts2 == IF sts[index + 1] # NULL
                     THEN removeTransition(sts, index, state, StatesAsAgentList(sts))
                     ELSE sts
       IN RemoveStateForEach(sts2, state, index + 1)

removeState(sts, state) ==
  IF ~Exists(sts, state) THEN sts
  ELSE RemoveStateForEach([sts EXCEPT ![state + 1] = NULL], state, 0)

\* An assignment argument is an object whose keys are propositional
\* variables and whose values are true or false.
AssignmentInputs == UNION {[D -> BOOLEAN] : D \in SUBSET Props}

\* A variant that puts the new state into the first null slot, if any.
addState_ReuseSlot(sts, assignment) ==
  LET new == [assignment |-> {pv \in DOMAIN assignment : assignment[pv] = TRUE},
              successors |-> EmptyMap]
  IN IF \E k \in 1..Len(sts) : sts[k] = NULL
       THEN [sts EXCEPT ![CHOOSE k \in 1..Len(sts) :
                            sts[k] = NULL /\ \A j \in 1..(k - 1) : sts[j] # NULL] = new]
       ELSE Append(sts, new)

addState(sts, assignment) ==
  Append(sts, [assignment |-> {pv \in DOMAIN assignment : assignment[pv] = TRUE},
               successors |-> EmptyMap])

\* A variant that stores true settings and never deletes a variable.
editState_NoDelete(sts, state, assignment) ==
  IF ~Exists(sts, state) THEN sts
  ELSE [sts EXCEPT ![state + 1].assignment =
          @ \cup {pv \in DOMAIN assignment : assignment[pv] = TRUE}]

editState(sts, state, assignment) ==
  IF ~Exists(sts, state) THEN sts
  ELSE [sts EXCEPT ![state + 1].assignment =
          (@ \cup {pv \in DOMAIN assignment : assignment[pv] = TRUE})
             \ {pv \in DOMAIN assignment : assignment[pv] = FALSE}]

\* getStates(): the assignment object of each state, or null.
getStates(sts) ==
  [k \in 1..Len(sts) |->
     IF sts[k] # NULL THEN [assignment |-> sts[k].assignment] ELSE NULL]

\* Storage held by the successor Maps of the whole model (the quantity the
\* model bounds: Map keys are never deleted, so emptied lists count too).
RECURSIVE TotalTargets(_)
TotalTargets(sts) ==
  IF sts = <<>> THEN 0
  ELSE (IF Head(sts) # NULL THEN SumLen(Head(sts).successors) ELSE 0)
       + TotalTargets(Tail(sts))

\* ------------------------------------------------------- successor reads
\* A possibly-undefined array: [defined |-> FALSE] is JavaScript undefined.
Undefined == [defined |-> FALSE, list |-> <<>>]
Defined(L) == [defined |-> TRUE, list |-> L]

\* A variant that forgets the agent and reads the first list of the Map, as
\* the nec and poss branches do.
getSuccessorsOf_AnyAgent(sts, source, agent) ==
  IF ~Exists(sts, source) THEN Undefined
  ELSE IF Len(sts[source + 1].successors) > 0
    THEN Defined(sts[source + 1].successors[1].list)
    ELSE Undefined

getSuccessorsOf(sts, source, agent) ==
  IF ~Exists(sts, source) THEN Undefined
  ELSE IF MapHas(sts[source + 1].successors, agent)
    THEN Defined(MapGet(sts[source + 1].successors, agent))
    ELSE Undefined

\* Defined: the Map's values() iterator, given as the array Array.from
\* makes of it (one list per agent key, in insertion order).
getSuccessorsOfOld(sts, source) ==
  IF ~Exists(sts, source) THEN Undefined
  ELSE Defined(MapValues(sts[source + 1].successors))

\* ---------------------------------------------------------- reachability
\* getAllSuccessorsOf, gAccessibility and gAccessStrict read the free
\* identifier `model`; it is taken to be the page's single Model instance,
\* the one the method was called on.

\* The while (C[0]) loop of getAllSuccessorsOf: C is the work list, V the
\* visited list.  C[0] is falsy when C is empty and when C[0] is index 0.
RECURSIVE AllSuccLoop(_, _, _, _)
AllSuccLoop(sts, agent, C, V) ==
  IF C = <<>> \/ Head(C) = 0 THEN V
  ELSE LET s == Head(C)
           L == getSuccessorsOf(sts, s, agent)
       IN IF s \in Range(V)
            THEN AllSuccLoop(sts, agent, Tail(C), V)
            ELSE AllSuccLoop(sts, agent,
                             Tail(IF L.defined THEN C \o L.list ELSE C),
                             Append(V, s))

getAllSuccessorsOf(sts, state, agent) ==
  LET C == getSuccessorsOf(sts, state, agent)
  IN IF C.defined THEN AllSuccLoop(sts, agent, C.list, <<>>) ELSE <<>>

\* Append the elements of arr that F does not hold yet (indexOf === -1).
RECURSIVE PushNew(_, _)
PushNew(F, arr) ==
  IF arr = <<>> THEN F
  ELSE PushNew(IF Head(arr) \in Range(F) THEN F ELSE Append(F, Head(arr)), Tail(arr))

\* list is an array of agent leaves {prop: name}.
RECURSIVE gAccessibilityFrom(_, _, _, _)
gAccessibilityFrom(sts, state, list, F) ==
  IF list = <<>> THEN F
  ELSE gAccessibilityFrom(sts, state, Tail(list),
                          PushNew(F, getAllSuccessorsOf(sts, state, Head(list).prop)))

gAccessibility(sts, state, list) == gAccessibilityFrom(sts, state, list, <<>>)

RECURSIVE gAccessStrictFrom(_, _, _, _)
gAccessStrictFrom(sts, state, list, F) ==
  IF list = <<>> THEN F
  ELSE LET array == getAllSuccessorsOf(sts, state, Head(list).prop)
       IN gAccessStrictFrom(sts, state, Tail(list),
                            SelectSeq(F, LAMBDA s : s \in Range(array)))

\* list is never empty: a group names at least two agents.
gAccessStrict(sts, state, list) ==
  gAccessStrictFrom(sts, state, list, getAllSuccessorsOf(sts, state, Head(list).prop))

\* ------------------------------------------------------------ valuation
BoolStr(b) == IF b THEN "true" ELSE "false"

valuation(sts, propvar, state) ==
  IF ~Exists(sts, state) THEN "StateNotFound"
  ELSE BoolStr(propvar \in sts[state + 1].assignment)

\* --------------------------------------------------------- model string
\* A string is a sequence of one-character strings.  Propositional
\* variables are one character long, world indices one digit.
Digits == <<"0", "1", "2", "3", "4", "5", "6", "7", "8", "9">>

NumStr(n) == <<Digits[n + 1]>>

IsDigit(c) == c \in Range(Digits)

\* \w of the regular expressions, over the characters a model string has.
IsWordChar(c) == c \notin {",", ";"}

\* Object.keys(assignment): the true variables, in some fixed order.
RECURSIVE ObjectKeys(_)
ObjectKeys(S) ==
  IF S = {} THEN <<>>
  ELSE LET x == CHOOSE x \in S : TRUE IN <<<<x>>>> \o ObjectKeys(S \ {x})

\* Array.prototype.join() of an array of strings.
RECURSIVE Join(_)
Join(items) ==
  IF items = <<>> THEN <<>>
  ELSE IF Len(items) = 1 THEN items[1]
  ELSE items[1] \o <<",">> \o Join(Tail(items))

\* String.prototype.split(sep).
RECURSIVE Split(_, _)
Split(str, sep) ==
  IF \A k \in 1..Len(str) : str[k] # sep THEN <<str>>
  ELSE LET k == CHOOSE k \in 1..Len(str) :
                  str[k] = sep /\ \A j \in 1..(k - 1) : str[j] # sep
       IN <<SubSeq(str, 1, k - 1)>> \o Split(SubSeq(str, k + 1, Len(str)), sep)

\* for (var agent in state.successors): successors is a Map, and a Map has
\* no enumerable own properties, whatever entries it holds.
ForInKeys(successors) == SelectSeq(successors, LAMBDA e : FALSE)

\* The body of the for-in loop, over the keys it enumerates.
RECURSIVE SuccessorsString(_)
SuccessorsString(entries) ==
  IF entries = <<>> THEN <<>>
  ELSE <<Head(entries).agent>>
       \o Join([k \in 1..Len(Head(entries).list) |-> NumStr(Head(entries).list[k])])
       \o SuccessorsString(Tail(entries))

RECURSIVE getModelString(_)
getModelString(sts) ==
  IF sts = <<>> THEN <<>>
  ELSE (IF Head(sts) # NULL
          THEN <<"A">> \o Join(ObjectKeys(Head(sts).assignment)) \o <<"S">>
               \o SuccessorsString(ForInKeys(Head(sts).successors))
          ELSE <<>>)
       \o <<";">> \o getModelString(Tail(sts))

\* (?:\w+,)*\w+ : a comma-separated list of non-empty words.
WordListOK(str) ==
  \A item \in Range(Split(str, ",")) :
    item # <<>> /\ \A k \in 1..Len(item) : IsWordChar(item[k])

\* (?:\d+,)*\d+ : a comma-separated list of non-empty numbers.
DigitListOK(str) ==
  \A item \in Range(Split(str, ",")) :
    item # <<>> /\ \A k \in 1..Len(item) : IsDigit(item[k])

\* (?:A|A(?:\w+,)*\w+)(?:S|S(?:\d+,)*\d+)
TokenOK(tok) ==
  /\ Len(tok) >= 2
  /\ tok[1] = "A"
  /\ \E k \in 2..Len(tok) :
       /\ tok[k] = "S"
       /\ k = 2 \/ WordListOK(SubSeq(tok, 2, k - 1))
       /\ k = Len(tok) \/ DigitListOK(SubSeq(tok, k + 1, Len(tok)))

\* split(';').slice(0, -1)
InputStates(modelString) ==
  LET parts == Split(modelString, ";") IN SubSeq(parts, 1, Len(parts) - 1)

\* /^(?:;|(?:A|A(?:\w+,)*\w+)(?:S|S(?:\d+,)*\d+);)+$/
RegexTest(modelString) ==
  /\ modelString # <<>>
  /\ modelString[Len(modelString)] = ";"
  /\ \A tok \in Range(InputStates(modelString)) : tok = <<>> \/ TokenOK(tok)

\* state.match(/A(.*)S(.*)/).slice(1, 3), each part split on ',' (or []):
\* the first group is greedy, so it ends at the last S.
StateProperties(tok) ==
  LET k == CHOOSE k \in 1..Len(tok) :
             tok[k] = "S" /\ \A j \in (k + 1)..Len(tok) : tok[j] # "S"
      a == CHOOSE a \in 1..Len(tok) :
             tok[a] = "A" /\ \A j \in 1..(a - 1) : tok[j] # "A"
      part1 == SubSeq(tok, a + 1, k - 1)
      part2 == SubSeq(tok, k + 1, Len(tok))
  IN << IF part1 = <<>> THEN <<>> ELSE Split(part1, ","),
        IF part2 = <<>> THEN <<>> ELSE Split(part2, ",") >>

\* The plain object {} that loadFromModelString stores as successors: it
\* is no Map and holds no agent key.
PlainObject == [object |-> "{}"]

\* loadFromModelString(modelString) on a model whose states are sts: the
\* states afterwards, and the error thrown.  Restoring a transition calls
\* self.addTransition(source, target, agent) with `agent` undeclared.
loadFromModelString(sts, modelString) ==
  IF ~RegexTest(modelString) THEN [states |-> sts, threw |-> "none"]
  ELSE LET inputStates == InputStates(modelString)
           restored ==
             [k \in 1..Len(inputStates) |->
                IF inputStates[k] = <<>> THEN NULL
                ELSE [assignment |->
                        {name[1] : name \in Range(StateProperties(inputStates[k])[1])},
                      successors |-> PlainObject]]
           successorLists ==
             [k \in 1..Len(inputStates) |->
                IF inputStates[k] = <<>> THEN <<>>
                ELSE StateProperties(inputStates[k])[2]]
       IN [states |-> restored,
           threw |-> IF \E k \in 1..Len(inputStates) : successorLists[k] # <<>>
                       THEN "ReferenceError" ELSE "none"]

\* The targets a restored state holds for agent.
RestoredTargets(state, agent) ==
  IF state.successors = PlainObject THEN {}
  ELSE UNION {Range(state.successors[k].list) :
                k \in {j \in 1..Len(state.successors) :
                         state.successors[j].agent = agent}}

\* ------------------------------------------------------------ formulas
\* A formula is the JSON object of the source: a record with one key,
\* {prop: name}, {neg: f}, {know: [agent, f]}, {group: [agent, rest]} ...
\* The two-element arrays are tuples, so json.know[0] is json.know[1] here.
Prop(name) == [prop |-> name]
Neg(f) == [neg |-> f]
Conj(f, g) == [conj |-> <<f, g>>]
Disj(f, g) == [disj |-> <<f, g>>]
Impl(f, g) == [impl |-> <<f, g>>]
Equi(f, g) == [equi |-> <<f, g>>]
Nec(f) == [nec |-> f]
Poss(f) == [poss |-> f]
Know(a, f) == [know |-> <<Prop(a), f>>]
Group(a, rest) == [group |-> <<a, rest>>]
EveryoneKnows(g, f) == [eknow |-> <<g, f>>]
Distributed(g, f) == [distrib |-> <<g, f>>]
Common(g, f) == [common |-> <<g, f>>]

\* ------------------------------------------------------------ evaluator
IsError(v) == v \in {"StateNotFound", "TypeError", "InvalidFormula"}

\* JavaScript truthiness of a result: true, or any Array.
Truthy(v) == v \in {"true", "array"}

\* The while (g) loop of the group branch.  L.indexOf(a) compares object
\* identity, and the nodes of a formula tree are distinct objects, so the
\* first agent of each nested group is always pushed.
\* A variant that never pushes the agent leaf closing the group.
RECURSIVE GroupLoop_NoLast(_, _)
GroupLoop_NoLast(g, L) ==
  LET L1 == Append(L, g[1])
  IN IF "group" \in DOMAIN g[2] THEN GroupLoop_NoLast(g[2].group, L1) ELSE L1

RECURSIVE GroupLoop(_, _)
GroupLoop(g, L) ==
  LET L1 == Append(L, g[1])
      L2 == IF "prop" \in DOMAIN g[2] THEN Append(L1, g[2]) ELSE L1
  IN IF "group" \in DOMAIN g[2] THEN GroupLoop(g[2].group, L2) ELSE L2

\* The Array a group node evaluates to.
GroupList(json) == GroupLoop(json.group, <<>>)

RECURSIVE Truth(_, _, _)
RECURSIVE EveryTruth(_, _, _)
RECURSIVE SomeTruth(_, _, _)
RECURSIVE EveryKnow(_, _, _, _)

\* arr.every(function (succState) { return _truth(model, succState, json); })
EveryTruth(sts, arr, json) ==
  IF arr = <<>> THEN "true"
  ELSE LET v == Truth(sts, Head(arr), json)
       IN IF IsError(v) THEN v
          ELSE IF ~Truthy(v) THEN "false"
          ELSE EveryTruth(sts, Tail(arr), json)

\* arr.some(function (succState) { return _truth(model, succState, json); })
SomeTruth(sts, arr, json) ==
  IF arr = <<>> THEN "false"
  ELSE LET v == Truth(sts, Head(arr), json)
       IN IF IsError(v) THEN v
          ELSE IF Truthy(v) THEN "true"
          ELSE SomeTruth(sts, Tail(arr), json)

\* L.every(function (agent) { return _truth(model, state, {know: [agent, f]}); })
EveryKnow(sts, L, state, f) ==
  IF L = <<>> THEN "true"
  ELSE LET v == Truth(sts, state, [know |-> <<Head(L), f>>])
       IN IF IsError(v) THEN v
          ELSE IF ~Truthy(v) THEN "false"
          ELSE EveryKnow(sts, Tail(L), state, f)

\* _truth(model, state, json).  The result "array" stands for the Array
\* GroupList(json) that a group node evaluates to.
Truth(sts, state, json) ==
  LET D == DOMAIN json
  IN
  IF "prop" \in D THEN valuation(sts, json.prop, state)
  ELSE IF "neg" \in D THEN
    LET v == Truth(sts, state, json.neg)
    IN IF IsError(v) THEN v ELSE BoolStr(~Truthy(v))
  ELSE IF "conj" \in D THEN
    LET v == Truth(sts, state, json.conj[1])
    IN IF IsError(v) \/ ~Truthy(v) THEN v ELSE Truth(sts, state, json.conj[2])
  ELSE IF "disj" \in D THEN
    LET v == Truth(sts, state, json.disj[1])
    IN IF IsError(v) \/ Truthy(v) THEN v ELSE Truth(sts, state, json.disj[2])
  ELSE IF "impl" \in D THEN
    LET v == Truth(sts, state, json.impl[1])
    IN IF IsError(v) THEN v
       ELSE IF ~Truthy(v) THEN "true"
       ELSE Truth(sts, state, json.impl[2])
  ELSE IF "equi" \in D THEN
    LET v == Truth(sts, state, json.equi[1])
        w == Truth(sts, state, json.equi[2])
    IN IF IsError(v) THEN v
       ELSE IF IsError(w) THEN w
       ELSE BoolStr(v = w /\ v # "array")
  ELSE IF "nec" \in D THEN
    LET L == getSuccessorsOfOld(sts, state)
    IN IF ~L.defined THEN "TypeError"
       ELSE IF Len(L.list) = 0 THEN "true"
       ELSE EveryTruth(sts, L.list[1], json.nec)
  ELSE IF "poss" \in D THEN
    LET L == getSuccessorsOfOld(sts, state)
    IN IF ~L.defined THEN "TypeError"
       ELSE IF Len(L.list) = 0 THEN "true"
       ELSE SomeTruth(sts, L.list[1], json.poss)
  ELSE IF "know" \in D THEN
    LET A == getSuccessorsOf(sts, state, json.know[1].prop)
    IN IF ~A.defined THEN "true"
       ELSE EveryTruth(sts, A.list, json.know[2])
  ELSE IF "group" \in D THEN "array"
  ELSE IF "eknow" \in D THEN
    LET L == Truth(sts, state, json.eknow[1])
    IN IF IsError(L) THEN L
       ELSE IF L = "array"
         THEN EveryKnow(sts, GroupList(json.eknow[1]), state, json.eknow[2])
         ELSE "undefined"
  ELSE IF "distrib" \in D THEN
    LET L == Truth(sts, state, json.distrib[1])
    IN IF IsError(L) THEN L
       ELSE IF L = "array"
         THEN EveryTruth(sts, gAccessStrict(sts, state, GroupList(json.distrib[1])),
                         json.distrib[2])
         ELSE "undefined"
  ELSE IF "common" \in D THEN
    LET L == Truth(sts, state, json.common[1])
    IN IF IsError(L) THEN L
       ELSE IF L = "array"
         THEN EveryTruth(sts, gAccessibility(sts, state, GroupList(json.common[1])),
                         json.common[2])
         ELSE "undefined"
  ELSE "InvalidFormula"

\* A variant without the state check of the entry point.
truth_NoCheck(sts, state, wff) == Truth(sts, state, wff)

\* truth(model, state, wff): the public entry point.
truth(sts, state, wff) ==
  IF ~(state \in 0..(Len(sts) - 1) /\ getStates(sts)[state + 1] # NULL)
    THEN "StateNotFound"
    ELSE Truth(sts, state, wff)

\* ------------------------------------------------- writes of the readers
\* The model after a call of a reading method.  The arrays V, S, F and L of
\* the methods are local; the only array a method changes (push, shift) is
\* the work list C of getAllSuccessorsOf, which starts as the stored list
\* that getSuccessorsOf returned and is replaced by a copy before the loop.

\* C = Array.from(C): a new array, not shared with the Map any more.
ArrayFrom_SameArray(arr) == [shared |-> TRUE, list |-> arr]

ArrayFrom(arr) == [shared |-> FALSE, list |-> arr]

\* The work list C when the while (C[0]) loop ends.
RECURSIVE AllSuccLoopRest(_, _, _, _)
AllSuccLoopRest(sts, agent, C, V) ==
  IF C = <<>> \/ Head(C) = 0 THEN C
  ELSE LET s == Head(C)
           L == getSuccessorsOf(sts, s, agent)
       IN IF s \in Range(V)
            THEN AllSuccLoopRest(sts, agent, Tail(C), V)
            ELSE AllSuccLoopRest(sts, agent,
                                 Tail(IF L.defined THEN C \o L.list ELSE C),
                                 Append(V, s))

getAllSuccessorsOfWrites(sts, state, agent) ==
  LET C0 == getSuccessorsOf(sts, state, agent)
  IN IF ~C0.defined THEN sts
     ELSE LET C == ArrayFrom(C0.list)
          IN IF C.shared
               THEN [sts EXCEPT ![state + 1].successors =
                       MapSet(@, agent, AllSuccLoopRest(sts, agent, C.list, <<>>))]
               ELSE sts

\* gAccessibility and gAccessStrict call getAllSuccessorsOf once per agent
\* of the list and write to their local arrays only.
RECURSIVE gAccessWrites(_, _, _)
gAccessWrites(sts, state, list) ==
  IF list = <<>> THEN sts
  ELSE gAccessWrites(getAllSuccessorsOfWrites(sts, state, Head(list).prop),
                     state, Tail(list))

RECURSIVE TruthWrites(_, _, _)
RECURSIVE EveryWrites(_, _, _)
RECURSIVE SomeWrites(_, _, _)
RECURSIVE EveryKnowWrites(_, _, _, _)

\* every() stops at the first element whose evaluation throws or is falsy.
EveryWrites(sts, arr, json) ==
  IF arr = <<>> THEN sts
  ELSE LET v == Truth(sts, Head(arr), json)
           after == TruthWrites(sts, Head(arr), json)
       IN IF IsError(v) \/ ~Truthy(v) THEN after
          ELSE EveryWrites(after, Tail(arr), json)

\* some() stops at the first element whose evaluation throws or is truthy.
SomeWrites(sts, arr, json) ==
  IF arr = <<>> THEN sts
  ELSE LET v == Truth(sts, Head(arr), json)
           after == TruthWrites(sts, Head(arr), json)
       IN IF IsError(v) \/ Truthy(v) THEN after
          ELSE SomeWrites(after, Tail(arr), json)

EveryKnowWrites(sts, L, state, f) ==
  IF L = <<>> THEN sts
  ELSE LET v == Truth(sts, state, [know |-> <<Head(L), f>>])
           after == TruthWrites(sts, state, [know |-> <<Head(L), f>>])
       IN IF IsError(v) \/ ~Truthy(v) THEN after
          ELSE EveryKnowWrites(after, Tail(L), state, f)

\* The model after _truth(model, state, json), returned or thrown.
TruthWrites(sts, state, json) ==
  LET D == DOMAIN json
  IN
  IF "prop" \in D THEN sts
  ELSE IF "neg" \in D THEN TruthWrites(sts, state, json.neg)
  ELSE IF "conj" \in D THEN
    LET v == Truth(sts, state, json.conj[1])
        after == TruthWrites(sts, state, json.conj[1])
    IN IF IsError(v) \/ ~Truthy(v) THEN after
       ELSE TruthWrites(after, state, json.conj[2])
  ELSE IF "disj" \in D THEN
    LET v == Truth(sts, state, json.disj[1])
        after == TruthWrites(sts, state, json.disj[1])
    IN IF IsError(v) \/ Truthy(v) THEN after
       ELSE TruthWrites(after, state, json.disj[2])
  ELSE IF "impl" \in D THEN
    LET v == Truth(sts, state, json.impl[1])
        after == TruthWrites(sts, state, json.impl[1])
    IN IF IsError(v) \/ ~Truthy(v) THEN after
       ELSE TruthWrites(after, state, json.impl[2])
  ELSE IF "equi" \in D THEN
    LET v == Truth(sts, state, json.equi[1])
        after == TruthWrites(sts, state, json.equi[1])
    IN IF IsError(v) THEN after
       ELSE TruthWrites(after, state, json.equi[2])
  ELSE IF "nec" \in D THEN
    LET L == getSuccessorsOfOld(sts, state)
    IN IF ~L.defined \/ Len(L.list) = 0 THEN sts
       ELSE EveryWrites(sts, L.list[1], json.nec)
  ELSE IF "poss" \in D THEN
    LET L == getSuccessorsOfOld(sts, state)
    IN IF ~L.defined \/ Len(L.list) = 0 THEN sts
       ELSE SomeWrites(sts, L.list[1], json.poss)
  ELSE IF "know" \in D THEN
    LET A == getSuccessorsOf(sts, state, json.know[1].prop)
    IN IF ~A.defined THEN sts
       ELSE EveryWrites(sts, A.list, json.know[2])
  ELSE IF "group" \in D THEN sts
  ELSE IF "eknow" \in D THEN
    IF Truth(sts, state, json.eknow[1]) = "array"
      THEN EveryKnowWrites(sts, GroupList(json.eknow[1]), state, json.eknow[2])
      ELSE sts
  ELSE IF "distrib" \in D THEN
    IF Truth(sts, state, json.distrib[1]) = "array"
      THEN EveryWrites(gAccessWrites(sts, state, GroupList(json.distrib[1])),
                       gAccessStrict(sts, state, GroupList(json.distrib[1])),
                       json.distrib[2])
      ELSE sts
  ELSE IF "common" \in D THEN
    IF Truth(sts, state, json.common[1]) = "array"
      THEN EveryWrites(gAccessWrites(sts, state, GroupList(json.common[1])),
                       gAccessibility(sts, state, GroupList(json.common[1])),
                       json.common[2])
      ELSE sts
  ELSE sts

\* --------------------------------------------------------------- actions
Init ==
  /\ states = <<>>
  /\ lastTrue = <<>>

\* The variables an assignment argument sets to true, and to false.
SetsTrue(assignment) == {pv \in DOMAIN assignment : assignment[pv] = TRUE}
SetsFalse(assignment) == {pv \in DOMAIN assignment : assignment[pv] = FALSE}

AddState ==
  \E assignment \in AssignmentInputs :
    /\ Len(states) < MaxWorlds
    /\ states' = addState(states, assignment)
    /\ lastTrue' = Append(lastTrue, SetsTrue(assignment))

EditState ==
  \E state \in WorldIds, assignment \in AssignmentInputs :
    /\ states' = editState(states, state, assignment)
    /\ lastTrue' = IF state \in 0..(Len(states) - 1) /\ states[state + 1] # NULL
                     THEN [lastTrue EXCEPT ![state + 1] =
                             (@ \ SetsFalse(assignment)) \cup SetsTrue(assignment)]
                     ELSE lastTrue

RemoveState ==
  \E state \in WorldIds :
    /\ states' = removeState(states, state)
    /\ lastTrue' = IF state \in 0..(Len(states) - 1) /\ states[state + 1] # NULL
                     THEN [lastTrue EXCEPT ![state + 1] = {}]
                     ELSE lastTrue

AddTransition ==
  \E source \in WorldIds, target \in WorldIds, k \in 1..Len(AgentLists) :
    /\ TotalTargets(addTransition(states, source, target, AgentLists[k])) <= MaxTrans
    /\ states' = addTransition(states, source, target, AgentLists[k])
    /\ UNCHANGED lastTrue

RemoveTransition ==
  \E source \in WorldIds, target \in WorldIds, k \in 1..Len(AgentLists) :
    /\ states' = removeTransition(states, source, target, AgentLists[k])
    /\ UNCHANGED lastTrue

Next ==
  \/ AddState
  \/ EditState
  \/ RemoveState
  \/ AddTransition
  \/ RemoveTransition

Spec == Init /\ [][Next]_vars

\* ========================================================== properties
\* The relation as stored, read without the accessor methods.
Indices == 0..(Len(states) - 1)
Live == {i \in Indices : states[i + 1] # NULL}

\* The targets agent has at world i (empty when i is no world or agent no key).
Direct(i, agent) ==
  IF i \in Live
    THEN UNION {Range(states[i + 1].successors[k].list) :
                  k \in {j \in 1..Len(states[i + 1].successors) :
                           states[i + 1].successors[j].agent = agent}}
    ELSE {}

\* The targets of every agent at world i.
Merged(i) == UNION {Direct(i, agent) : agent \in Agents}

\* The worlds one or more agent-steps away from i.
RECURSIVE ReachFrom(_, _)
ReachFrom(S, agent) ==
  LET N == S \cup UNION {Direct(s, agent) : s \in S}
  IN IF N = S THEN S ELSE ReachFrom(N, agent)

Reach(i, agent) == ReachFrom(Direct(i, agent), agent)

\* The agent identifiers named anywhere in a group (or single leaf).
RECURSIVE AgentsNamed(_)
AgentsNamed(node) ==
  IF "prop" \in DOMAIN node THEN {node.prop}
  ELSE AgentsNamed(node.group[1]) \cup AgentsNamed(node.group[2])

\* The formulas, agents and groups the properties quantify over.
P == Prop("p")
Formulas == << P, Neg(P), Know("b", P), Poss(P) >>
FormulaIds == 1..Len(Formulas)
AnyAgent == Agents \cup {"c"}
Groups == << Group(Prop("a"), Prop("b")),
             Group(Prop("a"), Group(Prop("b"), Prop("c"))),
             Group(Prop("c"), Group(Prop("a"), Prop("b"))) >>
GroupIds == 1..Len(Groups)

Sat(s, f) == Truth(states, s, f) = "true"

\* C1: every target stored in a successor list of a live world is a live
\* world, and getSuccessors of a removed world is absent for every agent.
C1_TargetsAreLive ==
  /\ \A i \in Live : \A agent \in Agents : Direct(i, agent) \subseteq Live
  /\ \A i \in Indices \ Live :
       \A agent \in Agents : ~getSuccessorsOf(states, i, agent).defined

\* C2: allReachable(i, agent) is exactly the set of worlds one or more
\* agent-steps away from i, cyclic relations included.
C2_AllReachableExact ==
  \A i \in Live : \A agent \in Agents :
    Range(getAllSuccessorsOf(states, i, agent)) = Reach(i, agent)

\* C3: Nec(f) holds at w iff f holds at every world of the merged successor
\* set of w (all agents), and Poss(f) iff f holds at some world of it.
C3_NecPossOverAllAgents ==
  \A w \in Live : \A k \in FormulaIds :
    /\ Sat(w, Nec(Formulas[k])) <=> \A s \in Merged(w) : Sat(s, Formulas[k])
    /\ Sat(w, Poss(Formulas[k])) <=> \E s \in Merged(w) : Sat(s, Formulas[k])

\* C4: at a live world with an empty merged successor set, Nec(f) is true
\* and Poss(f) is false.
C4_EmptyMergedSet ==
  \A w \in Live : \A k \in FormulaIds :
    Merged(w) = {} =>
      /\ Truth(states, w, Nec(Formulas[k])) = "true"
      /\ Truth(states, w, Poss(Formulas[k])) = "false"

\* The scenario of C5: worlds [{p}, {}] (or [{p}, {p}]) and the single
\* a-transition 0 -> 1.
Scenario(val1) ==
  states = << [assignment |-> {"p"},
               successors |-> <<[agent |-> "a", list |-> <<1>>]>>],
              [assignment |-> val1, successors |-> EmptyMap] >>

\* C5: Know(a, f) holds at w iff f holds at every world of a's direct
\* successor list at w (so it holds when a has no relation at w); in the
\* scenario Know(a, p) at 0 is false, and true once world 1 satisfies p.
C5_KnowDirect ==
  /\ \A w \in Live : \A agent \in AnyAgent : \A k \in FormulaIds :
       Sat(w, Know(agent, Formulas[k])) <=>
         \A s \in Direct(w, agent) : Sat(s, Formulas[k])
  /\ Scenario({}) => Truth(states, 0, Know("a", P)) = "false"
  /\ Scenario({"p"}) => Truth(states, 0, Know("a", P)) = "true"

C5_Witness ==
  /\ Scenario({})
  /\ Truth(states, 0, Know("a", P)) = "false"
  /\ Truth(states, 0, Know("b", P)) = "true"

\* C6: Common(A, f) holds at w iff f holds at every world some agent of A
\* reaches from w in one or more steps of its own relation; when every
\* agent of the group has only the edge 0 -> 1, Common(A, f) at 0 equals
\* Know(a, f) at 0.
C6_CommonUnion ==
  /\ \A w \in Live : \A g \in GroupIds : \A k \in FormulaIds :
       Sat(w, Common(Groups[g], Formulas[k])) <=>
         \A s \in UNION {Reach(w, agent) : agent \in AgentsNamed(Groups[g])} :
           Sat(s, Formulas[k])
  /\ \A g \in GroupIds : \A k \in FormulaIds :
       (\A agent \in AgentsNamed(Groups[g]) :
          /\ Direct(0, agent) = {1}
          /\ \A i \in Live \ {0} : Direct(i, agent) = {})
       => Truth(states, 0, Common(Groups[g], Formulas[k]))
            = Truth(states, 0, Know("a", Formulas[k]))

\* C7: Distributed(A, f) holds at w iff f holds at every world that every
\* agent of A reaches from w in one or more steps of its own relation.
C7_DistributedIntersection ==
  \A w \in Live : \A g \in GroupIds : \A k \in FormulaIds :
    Sat(w, Distributed(Groups[g], Formulas[k])) <=>
      \A s \in {t \in Indices :
                  \A agent \in AgentsNamed(Groups[g]) : t \in Reach(w, agent)} :
        Sat(s, Formulas[k])

\* C8: EveryoneKnows(group, f) holds at w iff Know(a, f) holds at w for
\* every agent a named in the group, whatever its position.
C8_EveryoneKnowsFold ==
  \A w \in Live : \A g \in GroupIds : \A k \in FormulaIds :
    Sat(w, EveryoneKnows(Groups[g], Formulas[k])) <=>
      \A agent \in AgentsNamed(Groups[g]) : Sat(w, Know(agent, Formulas[k]))

\* Both agents see only world 0 from world 1, and nothing is reachable by
\* the closure: everyone knows p there, and not everyone knows ~p.
C8_Witness ==
  /\ Live = {0, 1}
  /\ Direct(1, "a") = {0}
  /\ Direct(1, "b") = {0}
  /\ Truth(states, 1, EveryoneKnows(Groups[1], P)) = "true"
  /\ Truth(states, 1, EveryoneKnows(Groups[3], Neg(P))) = "false"

\* C9: with a single agent leaf as left operand the evaluation yields a
\* boolean: EveryoneKnows(a, f) equals Know(a, f), and Distributed(a, f)
\* and Common(a, f) are the truth of f at every world of allReachable(w, a).
C9_SingleAgentGroup ==
  \A w \in Live : \A agent \in Agents : \A k \in FormulaIds :
    /\ Truth(states, w, EveryoneKnows(Prop(agent), Formulas[k]))
         = Truth(states, w, Know(agent, Formulas[k]))
    /\ Truth(states, w, Distributed(Prop(agent), Formulas[k]))
         = BoolStr(\A s \in Reach(w, agent) : Sat(s, Formulas[k]))
    /\ Truth(states, w, Common(Prop(agent), Formulas[k]))
         = BoolStr(\A s \in Reach(w, agent) : Sat(s, Formulas[k]))
\* C10: deserialize(serialize(m)) has the same number of world slots, the
\* tombstones at the same indices, the same valuation in every world and
\* the same set of successors for every agent at every world.
C10_RoundTrip ==
  LET r == loadFromModelString(<<>>, getModelString(states))
  IN /\ r.threw = "none"
     /\ Len(r.states) = Len(states)
     /\ \A k \in 1..Len(states) :
          /\ r.states[k] = NULL <=> states[k] = NULL
          /\ states[k] # NULL =>
               /\ r.states[k].assignment = states[k].assignment
               /\ \A agent \in Agents :
                    RestoredTargets(r.states[k], agent) = Direct(k - 1, agent)
\* What one step may do to the world sequence: it grows by at most one
\* slot, a new world takes the index equal to the old length and leaves
\* every older slot as it was, a null slot stays null, removeState(i) nulls
\* slot i and keeps the length, the other null slots and every other
\* valuation, and getStates has one entry per index, null exactly at the
\* null slots.
StableIndexStep ==
  /\ Len(states') \in {Len(states), Len(states) + 1}
  /\ \A k \in 1..Len(states) : states[k] = NULL => states'[k] = NULL
  /\ Len(states') = Len(states) + 1 =>
       /\ states'[Len(states')] # NULL
       /\ SubSeq(states', 1, Len(states)) = states
  /\ \A i \in WorldIds :
       (i \in 0..(Len(states) - 1) /\ states[i + 1] # NULL
          /\ states' = removeState(states, i)) =>
         /\ Len(states') = Len(states)
         /\ states'[i + 1] = NULL
         /\ \A k \in 1..Len(states) \ {i + 1} :
              /\ states'[k] = NULL <=> states[k] = NULL
              /\ states[k] # NULL => states'[k].assignment = states[k].assignment
  /\ Len(getStates(states')) = Len(states')
  /\ \A k \in 1..Len(states') :
       /\ getStates(states')[k] = NULL <=> states'[k] = NULL
       /\ states'[k] # NULL =>
            getStates(states')[k] = [assignment |-> states'[k].assignment]

\* C11: world indices are stable identities: addWorld appends at the old
\* length and never reuses a null slot, removeWorld nulls slot i without
\* moving any other world, and listWorlds marks exactly the null slots.
C11_StableIndices == [][StableIndexStep]_vars

\* Slot 0 is a tombstone and world 1 is still at index 1.
C11_Witness ==
  /\ Len(states) = 2
  /\ states[1] = NULL
  /\ states[2] # NULL
  /\ getStates(states)[1] = NULL
  /\ getStates(states)[2] # NULL
\* Variables a caller may ask about: those ever set, and one never set.
AnyProp == Props \cup {"q"}

AnyIndex == (0 - 1)..MaxWorlds

EntryFormulas == << P, Neg(P), Nec(P), Poss(P), Know("a", P),
                    EveryoneKnows(Groups[1], P), Distributed(Groups[1], P),
                    Common(Groups[1], P) >>

\* C13: the entry point fails with StateNotFound for every formula when the
\* world index is out of range or tombstoned, and getValuation(p, i) fails
\* with StateNotFound exactly when i is out of range or tombstoned.
C13_AbsentWorldFails ==
  \A i \in AnyIndex :
    /\ i \notin Live =>
         \A k \in 1..Len(EntryFormulas) :
           truth(states, i, EntryFormulas[k]) = "StateNotFound"
    /\ \A pv \in AnyProp :
         valuation(states, pv, i) = "StateNotFound" <=> i \notin Live

\* World 0 is a tombstone: the evaluator itself would answer true for
\* Know(a, p) there, the entry point fails; so does an index out of range.
C13_Witness ==
  /\ Len(states) = 2
  /\ states[1] = NULL
  /\ states[2] # NULL
  /\ Truth(states, 0, Know("a", P)) = "true"
  /\ truth(states, 0, Know("a", P)) = "StateNotFound"
  /\ truth(states, 2, P) = "StateNotFound"
  /\ valuation(states, "p", 0) = "StateNotFound"
  /\ valuation(states, "p", 1) # "StateNotFound"

\* C14: a mutating operation given an absent index leaves the whole model
\* unchanged: addTransition with an absent source or target,
\* removeTransition with an absent source, removeWorld and editValuation
\* with an absent world (so a second removeWorld(i) changes nothing).
C14_AbsentIndexNoOp ==
  \A i \in AnyIndex \ Live :
    /\ removeState(states, i) = states
    /\ \A a \in AssignmentInputs : editState(states, i, a) = states
    /\ \A j \in AnyIndex : \A k \in 1..Len(AgentLists) :
         /\ addTransition(states, i, j, AgentLists[k]) = states
         /\ addTransition(states, j, i, AgentLists[k]) = states
         /\ removeTransition(states, i, j, AgentLists[k]) = states

\* World 0 was removed, world 1 lives with a valuation and a transition:
\* removing world 0 again, or adding a transition from 1 to 0, changes
\* nothing.
C14_Witness ==
  /\ Len(states) = 2
  /\ states[1] = NULL
  /\ states[2] # NULL
  /\ states[2].assignment = {"p"}
  /\ Direct(1, "a") # {}
  /\ removeState(states, 0) = states
  /\ addTransition(states, 1, 0, <<"a">>) = states
  /\ addTransition(states, 1, 1, <<"a">>) # states
\* C15: evaluating a formula at any world, and calling allReachable,
\* unionReachable or intersectReachable, leaves the world sequence, every
\* valuation and every successor list (contents and order) as they were,
\* whether the call returns or fails.
C15_ReadersLeaveModel ==
  \A i \in AnyIndex :
    /\ \A agent \in AnyAgent : getAllSuccessorsOfWrites(states, i, agent) = states
    /\ \A g \in GroupIds : gAccessWrites(states, i, GroupList(Groups[g])) = states
    /\ \A k \in 1..Len(EntryFormulas) :
         TruthWrites(states, i, EntryFormulas[k]) = states
    /\ TruthWrites(states, i, Common(Groups[2], Know("b", P))) = states
    /\ TruthWrites(states, i, Distributed(Groups[3], Poss(P))) = states

\* The closure loop has run over a non-empty work list (a: 1 -> 1), and one
\* evaluation has returned while another has failed.
C15_Witness ==
  /\ Len(states) = 2
  /\ states[1] = NULL
  /\ states[2] # NULL
  /\ getSuccessorsOf(states, 1, "a") = Defined(<<1, 0>>)
  /\ getAllSuccessorsOf(states, 1, "a") = <<1>>
  /\ Truth(states, 1, Common(Groups[1], Know("b", P))) = "true"
  /\ Truth(states, 1, Know("a", P)) = "StateNotFound"
\* C16: evaluating a Know, Nec, Poss, EveryoneKnows, Distributed or Common
\* formula at a live world never fails with StateNotFound, because every
\* world the evaluator steps to through a stored transition still exists.
C16_NoStateNotFoundAtLiveWorld ==
  \A w \in Live : \A k \in 1..Len(EntryFormulas) :
    truth(states, w, EntryFormulas[k]) # "StateNotFound"
====
